---- MODULE Spec2Model ----
(***************************************************************************)
(* A model of arcoder.py: the two phonetic encoders ARCoder and Holmes.    *)
(*                                                                         *)
(* A Python string is a sequence of characters, and a character is a       *)
(* one-character TLA+ string ("a", "-", "1", "\n").  The only character of  *)
(* the source that is not ASCII, the left single quotation mark U+2018 of  *)
(* ARCoder.encoder and VALID_CHARS, is written "LQ".  The float keys of    *)
(* Holmes.rules are written in thousandths: 3.010 is 3010, 4.200 is 4200.  *)
(***************************************************************************)
EXTENDS Integers, Sequences, FiniteSets, TLC

VARIABLES alg, input, pc, err, result,
          undup_title, i, encoded, advs,
          s, rule_list, ri, applied

vars == <<alg, input, pc, err, result, undup_title, i, encoded, advs,
          s, rule_list, ri, applied>>

----------------------------------------------------------------------------
(* Bounds of the model: the inputs are all strings of at most MaxLen       *)
(* characters over an alphabet, and a few named inputs.                    *)

MaxLen == 3

ARAlphabet == {"a", "i", "e", "h", "t", "c", "E", "-", " ", "1"}

HolmesAlphabet == {"a", "e", "i", "y", "r", "h", "E", "1", "\n"}

BoundedStrings(chars, n) == UNION {[1..m -> chars] : m \in 0..n}

Sohaib == <<"S", "o", "h", "a", "i", "b">>

NamedInputs ==
    { Sohaib,
      <<"s", "o", "h", "a", "i", "b">>,
      <<"S", "O", "H", "A", "I", "B">>,
      <<"1", "2", "3">>,
      <<"A", "b", "d", "u", "l", "-", "R", "a", "h", "m", "a", "n">>,
      <<"C", "h", "a", "r", "i", "f">>,
      <<"a", " ", "c", "h", "a", "t">> }

----------------------------------------------------------------------------
(* Python's str methods and re.sub, on sequences of characters.            *)

LowerOf ==
    "A" :> "a" @@ "B" :> "b" @@ "C" :> "c" @@ "D" :> "d" @@ "E" :> "e" @@
    "F" :> "f" @@ "G" :> "g" @@ "H" :> "h" @@ "I" :> "i" @@ "J" :> "j" @@
    "K" :> "k" @@ "L" :> "l" @@ "M" :> "m" @@ "N" :> "n" @@ "O" :> "o" @@
    "P" :> "p" @@ "Q" :> "q" @@ "R" :> "r" @@ "S" :> "s" @@ "T" :> "t" @@
    "U" :> "u" @@ "V" :> "v" @@ "W" :> "w" @@ "X" :> "x" @@ "Y" :> "y" @@
    "Z" :> "z"

UpperLetters == DOMAIN LowerOf

\* c.lower() of one character
LowerChar(c) == IF c \in UpperLetters THEN LowerOf[c] ELSE c

UpperOf ==
    "a" :> "A" @@ "b" :> "B" @@ "c" :> "C" @@ "d" :> "D" @@ "e" :> "E" @@
    "f" :> "F" @@ "g" :> "G" @@ "h" :> "H" @@ "i" :> "I" @@ "j" :> "J" @@
    "k" :> "K" @@ "l" :> "L" @@ "m" :> "M" @@ "n" :> "N" @@ "o" :> "O" @@
    "p" :> "P" @@ "q" :> "Q" @@ "r" :> "R" @@ "s" :> "S" @@ "t" :> "T" @@
    "u" :> "U" @@ "v" :> "V" @@ "w" :> "W" @@ "x" :> "X" @@ "y" :> "Y" @@
    "z" :> "Z"

LowerLetters == DOMAIN UpperOf

\* c.upper() of one character
UpperChar(c) == IF c \in DOMAIN UpperOf THEN UpperOf[c] ELSE c

\* str.lower()
Lower(str) == [k \in 1..Len(str) |-> LowerChar(str[k])]

\* str.upper()
Upper(str) == [k \in 1..Len(str) |-> UpperChar(str[k])]

\* str.capitalize(): the first character upper-cased, the rest lower-cased
Capitalize(str) ==
    [k \in 1..Len(str) |-> IF k = 1 THEN UpperChar(str[k]) ELSE LowerChar(str[k])]

\* str[a:b] for 0 <= a <= b, Python's clamping of b included
Slice(str, a, b) ==
    SubSeq(str, a + 1, IF b < Len(str) THEN b ELSE Len(str))

\* str.startswith(orig)
StartsWith(str, orig) ==
    /\ Len(orig) <= Len(str)
    /\ SubSeq(str, 1, Len(orig)) = orig

\* str.endswith(orig)
EndsWith(str, orig) ==
    /\ Len(orig) <= Len(str)
    /\ SubSeq(str, Len(str) - Len(orig) + 1, Len(str)) = orig

\* str.replace(orig, subst, count) for a non-empty orig: the first count
\* non-overlapping occurrences, found left to right; count = -1 is all.
RECURSIVE ReplaceCount(_, _, _, _)
ReplaceCount(str, orig, subst, count) ==
    IF count = 0 \/ Len(str) < Len(orig) THEN str
    ELSE IF StartsWith(str, orig)
         THEN subst \o ReplaceCount(SubSeq(str, Len(orig) + 1, Len(str)),
                                    orig, subst,
                                    IF count < 0 THEN count ELSE count - 1)
         ELSE <<Head(str)>> \o ReplaceCount(Tail(str), orig, subst, count)

\* str.replace(orig, subst, 1) where all occurrences were meant
ReplaceFirstOnly(str, orig, subst) == ReplaceCount(str, orig, subst, 1)

\* str.replace(orig, subst)
Replace(str, orig, subst) == ReplaceCount(str, orig, subst, -1)

\* A character class of letters in the place of "."
DotMatchesLettersOnly(c) == c \in LowerLetters \cup UpperLetters

\* The characters the regular expression "." matches: all but a line feed.
DotMatches(c) == c # "\n"

\* re.sub(r'(.)\1', r'\1', str): the "+" lost, every pair becomes one
RECURSIVE ReSubPairs(_)
ReSubPairs(str) ==
    IF Len(str) < 2 THEN str
    ELSE IF str[1] = str[2] /\ DotMatches(str[1])
         THEN <<Head(str)>> \o ReSubPairs(Tail(Tail(str)))
         ELSE <<Head(str)>> \o ReSubPairs(Tail(str))

\* re.sub(r'(.)\1+', r'\1', str): every maximal run of two or more of one
\* character that "." matches becomes one occurrence of it.
RECURSIVE ReSubRuns(_)
ReSubRuns(str) ==
    IF Len(str) < 2 THEN str
    ELSE IF str[1] = str[2] /\ DotMatches(str[1])
         THEN ReSubRuns(Tail(str))
         ELSE <<Head(str)>> \o ReSubRuns(Tail(str))

\* ''.join(k for k, _ in itertools.groupby(str)): one character per run
RECURSIVE GroupByKeys(_)
GroupByKeys(str) ==
    IF Len(str) < 2 THEN str
    ELSE IF str[1] = str[2]
         THEN GroupByKeys(Tail(str))
         ELSE <<Head(str)>> \o GroupByKeys(Tail(str))

\* The characters str.split() splits on; of them only the space passes
\* VALID_CHARS.
Whitespace == {" ", "\n", "\t", "\r", "\f"}

\* str.split(): the maximal runs of non-whitespace characters, in order
RECURSIVE SplitFrom(_, _)
SplitFrom(str, word) ==
    IF str = <<>> THEN (IF word = <<>> THEN <<>> ELSE <<word>>)
    ELSE IF Head(str) \in Whitespace
         THEN (IF word = <<>> THEN <<>> ELSE <<word>>) \o SplitFrom(Tail(str), <<>>)
         ELSE SplitFrom(Tail(str), Append(word, Head(str)))

Split(str) == SplitFrom(str, <<>>)

\* ''.join(words)
RECURSIVE Join(_)
Join(words) == IF words = <<>> THEN <<>> ELSE Head(words) \o Join(Tail(words))

Range(f) == {f[k] : k \in DOMAIN f}

----------------------------------------------------------------------------
(* ARCoder                                                                  *)

\* ARCoder.encoder: pattern -> list of candidates
encoder ==
    <<"c">>      :> <<<<"s">>>> @@
    <<"g">>      :> <<<<"k">>, <<"j">>>> @@
    <<"i">>      :> <<<<"i">>, <<"e">>>> @@
    <<"o">>      :> <<<<"u">>>> @@
    <<"p">>      :> <<<<"b">>>> @@
    <<"q">>      :> <<<<"k">>>> @@
    <<"u">>      :> <<<<"u">>>> @@
    <<"v">>      :> <<<<"f">>>> @@
    <<"w">>      :> <<<<"u">>>> @@
    <<"y">>      :> <<<<"e">>>> @@
    <<"z">>      :> <<<<"s">>>> @@
    <<"C", "h">> :> <<<<"h">>>> @@
    <<"e", ".">> :> <<<<>>, <<"e">>>> @@
    <<"h", ".">> :> <<<<>>>> @@
    <<"t", ".">> :> <<<<"t">>, <<"d">>>> @@
    <<"a", "i">> :> <<<<"i">>, <<"a", "e">>>> @@
    <<"a", "y">> :> <<<<"i">>>> @@
    <<"e", "h">> :> <<<<"e">>>> @@
    <<"c", "h">> :> <<<<"0">>>> @@
    <<"g", "h">> :> <<<<"k">>>> @@
    <<"i", "y">> :> <<<<"e">>>> @@
    <<"k", "h">> :> <<<<"k">>>> @@
    <<"p", "h">> :> <<<<"f">>>> @@
    <<"o", "u">> :> <<<<"u">>>> @@
    <<"o", "o">> :> <<<<"u">>>> @@
    <<"s", "h">> :> <<<<"0">>>> @@
    <<"t", "h">> :> <<<<"z">>>> @@
    <<"u", "a">> :> <<<<"a">>, <<"u", "a">>, <<"u", "w", "a">>>> @@
    <<"w", "u">> :> <<<<"u">>>> @@
    <<"LQ">>     :> <<<<"a">>>> @@
    <<"'">>      :> <<<<>>, <<"w">>>>

\* VALID_CHARS = re.compile(r"[a-zA-Z<U+2018>\'\- ]"), as the set it matches
VALID_CHARS == LowerLetters \cup UpperLetters \cup {"LQ", "'", "-", " "}

\* d.get(key, [])
Get(key) == IF key \in DOMAIN encoder THEN encoder[key] ELSE <<>>

\* [ch.lower()] with the case of ch kept
FallbackVerbatim(ch) == {<<ch>>}

\* not found - return the first character unchanged: [ch.lower()] (line 93)
Fallback(ch) == {<<LowerChar(ch)>>}

\* The test of _encode that the two-character lookup is tried (line 77)
TriesTwoChar(len_s, final) == len_s = 2 \/ final

\* ARCoder._encode(str, final): the candidates, as the set the code builds,
\* and the advance length; or the exception the call raises.  `encoded` is
\* bound only inside the branch of line 77, and str[0] needs a character.
\* `used` is the number of characters of str the matched key stands for:
\* all of str for a two-character key (the "." of an end marker is no
\* character of str), the first character otherwise.
ARCoder_encode_token(str, final) ==
    LET len_s == Len(str)
        two == TriesTwoChar(len_s, final)
        force_two_char == IF len_s = 1 THEN Append(str, ".") ELSE str
        encoded2 == IF two
                    THEN Range(Get(force_two_char)) \cup Range(Get(Lower(force_two_char)))
                    ELSE {}
        ch == str[1]
        encoded1 == encoded2 \cup Range(Get(<<ch>>)) \cup Range(Get(<<LowerChar(ch)>>))
    IN  IF two /\ encoded2 # {}
        THEN [err |-> "none", encodings |-> encoded2, inc |-> 2, used |-> len_s]
        ELSE IF len_s = 0
        THEN [err |-> "IndexError", encodings |-> {}, inc |-> 0, used |-> 0]
        ELSE IF ~two
        THEN [err |-> "UnboundLocalError", encodings |-> {}, inc |-> 0, used |-> 0]
        ELSE IF encoded1 # {}
        THEN [err |-> "none", encodings |-> encoded1, inc |-> 1, used |-> 1]
        ELSE [err |-> "none", encodings |-> Fallback(ch), inc |-> 1, used |-> 1]

\* ARCoder._compress
ARCoder_compress(str) == ReSubRuns(str)

\* The filter without the case folding
FilteredNoLower(str) == SelectSeq(str, LAMBDA c : c \in VALID_CHARS)

\* filtered = ''.join(filter(VALID_CHARS.match, s.lower()))
Filtered(str) == SelectSeq(Lower(str), LAMBDA c : c \in VALID_CHARS)

\* filtered_spaces = filtered.replace('-', ' ')
FilteredSpaces(str) == Replace(Filtered(str), <<"-">>, <<" ">>)

\* undup = ''.join(i for i, _ in itertools.groupby(filtered_spaces))
Undup(str) == GroupByKeys(FilteredSpaces(str))

\* undup_title = ''.join(word.capitalize() for word in undup.split())
UndupTitle(str) ==
    LET words == Split(Undup(str))
    IN  Join([k \in 1..Len(words) |-> Capitalize(words[k])])

\* final one position late
IsFinalOffByOne(pos, l_comp_str) == pos = l_comp_str

\* final = (i == l_comp_str - 1), the second argument of line 112
IsFinal(pos, l_comp_str) == pos = l_comp_str - 1

\* A product whose base case is empty
RECURSIVE JoinedProductEmptyBase(_)
JoinedProductEmptyBase(lists) ==
    IF lists = <<>> THEN {}
    ELSE {c \o r : c \in Head(lists), r \in JoinedProductEmptyBase(Tail(lists))}

\* "".join(list(x)) for x in itertools.product(*lists): the product of no
\* list at all holds the empty tuple.
RECURSIVE JoinedProduct(_)
JoinedProduct(lists) ==
    IF lists = <<>> THEN {<<>>}
    ELSE {c \o r : c \in Head(lists), r \in JoinedProduct(Tail(lists))}

\* list(set(ARCoder._compress("".join(list(x))) for x in cartprod)), as a set
CompressedSet(lists) == {ARCoder_compress(x) : x \in JoinedProduct(lists)}

\* The while loop of lines 110-114 from cursor pos on: the candidate sets of
\* the tokens, up to a call that raises.
RECURSIVE Tokenize(_, _)
Tokenize(title, pos) ==
    IF ~(pos < Len(title)) THEN <<>>
    ELSE LET r == ARCoder_encode_token(Slice(title, pos, pos + 2),
                                       IsFinal(pos, Len(title)))
         IN  IF r.err # "none" THEN <<>>
             ELSE <<r.encodings>> \o Tokenize(title, pos + r.inc)

\* ARCoder.encode(str) as a function of its argument
ARCoderEncode(str) == CompressedSet(Tokenize(UndupTitle(str), 0))

----------------------------------------------------------------------------
(* Holmes                                                                   *)

P == "prefix"
S == "suffix"
A == "anywhere"

\* Holmes.rules: key -> (orig, subst, location)
rules ==
    1001 :> <<<<"a", "l", "-">>, <<>>, P>> @@
    1002 :> <<<<"a", "l", " ">>, <<>>, P>> @@
    1003 :> <<<<"e", "l", "-">>, <<>>, P>> @@
    1004 :> <<<<"e", "l", " ">>, <<>>, P>> @@
    1005 :> <<<<"a", "b", "u", "l">>, <<>>, P>> @@
    1006 :> <<<<"a", "b", "u", " ">>, <<>>, P>> @@
    2001 :> <<<<"-">>, <<>>, A>> @@
    2002 :> <<<<"'">>, <<>>, A>> @@
    2003 :> <<<<" ">>, <<>>, A>> @@
    3001 :> <<<<"a", "b", "d", "a", "l">>, <<"a", "b", "d", "u", "l">>, A>> @@
    3002 :> <<<<"a", "b", "d", "e", "l">>, <<"a", "b", "d", "u", "l">>, A>> @@
    3003 :> <<<<"a", "b", "d", "o", "l">>, <<"a", "b", "d", "u", "l">>, A>> @@
    3004 :> <<<<"d", "e", "r">>, <<"d", "u", "r">>, A>> @@
    3005 :> <<<<"q">>, <<"k">>, A>> @@
    3006 :> <<<<"a", "l", "l", "a", "h">>, <<"u", "l", "l", "a", "h">>, A>> @@
    3007 :> <<<<"e", "a", "n">>, <<"i", "d">>, S>> @@
    3008 :> <<<<"e", "a", "d">>, <<"i", "d">>, S>> @@
    3009 :> <<<<"a", "i">>, <<"a", "y">>, A>> @@
    3010 :> <<<<"e">>, <<"i">>, A>> @@
    3011 :> <<<<"o", "u">>, <<"u">>, A>> @@
    3012 :> <<<<"a", "e", "e">>, <<"a", "y">>, A>> @@
    3013 :> <<<<"o">>, <<"u">>, P>> @@
    3014 :> <<<<"a", "h">>, <<"a">>, A>> @@
    3015 :> <<<<"a", "e">>, <<"a", "y">>, A>> @@
    3016 :> <<<<"e", "i">>, <<"a", "y">>, P>> @@
    3017 :> <<<<"g", "h">>, <<"k">>, P>> @@
    3018 :> <<<<"k", "h">>, <<"k">>, A>> @@
    3019 :> <<<<"k", "a", "h">>, <<"k", "a">>, A>> @@
    3020 :> <<<<"i", "e">>, <<"i">>, A>> @@
    3021 :> <<<<"a", "w", "o">>, <<"a", "o">>, A>> @@
    3022 :> <<<<"a", "w", "u">>, <<"a", "u">>, A>> @@
    3023 :> <<<<"a", "w", "z">>, <<"a", "z">>, A>> @@
    3024 :> <<<<"d", "h">>, <<"d">>, A>> @@
    3025 :> <<<<"o", "u">>, <<"k">>, A>> @@
    3026 :> <<<<"k", "u", "a">>, <<"k", "a">>, A>> @@
    3027 :> <<<<"a", "w">>, <<"a", "u">>, A>> @@
    3028 :> <<<<"v">>, <<"w">>, A>> @@
    3029 :> <<<<"s", "a", "y">>, <<"s", "y">>, P>> @@
    3030 :> <<<<"g">>, <<"j">>, P>> @@
    3031 :> <<<<"s", "w">>, <<"s">>, P>> @@
    4005 :> <<<<"e", "e">>, <<"i">>, A>> @@
    4015 :> <<<<"o", "o">>, <<"u">>, A>> @@
    5001 :> <<<<"e", "d">>, <<"a", "d">>, S>> @@
    5002 :> <<<<"e", "l">>, <<"a", "l">>, S>> @@
    5003 :> <<<<"e", "h">>, <<"a">>, S>> @@
    5004 :> <<<<"y">>, <<"i">>, S>> @@
    5005 :> <<<<"i", "i">>, <<"i">>, S>> @@
    5006 :> <<<<"i", "y", "a">>, <<"i", "a">>, A>> @@
    5007 :> <<<<"a", "h">>, <<"a">>, A>> @@
    5008 :> <<<<"r", "y">>, <<"r", "i">>, A>> @@
    5009 :> <<<<"m", "o">>, <<"m", "u">>, P>> @@
    5010 :> <<<<"e", "y", "a">>, <<"i", "a">>, S>>

\* list(Holmes.rules.keys()): a dict keeps the order of insertion
RuleKeys ==
    <<1001, 1002, 1003, 1004, 1005, 1006, 2001, 2002, 2003,
      3001, 3002, 3003, 3004, 3005, 3006, 3007, 3008, 3009, 3010,
      3011, 3012, 3013, 3014, 3015, 3016, 3017, 3018, 3019, 3020,
      3021, 3022, 3023, 3024, 3025, 3026, 3027, 3028, 3029, 3030, 3031,
      4005, 4015,
      5001, 5002, 5003, 5004, 5005, 5006, 5007, 5008, 5009, 5010>>

\* The key encode adds to the list: 4.200
ReduceKey == 4200

\* sorted(list): insertion sort, ascending
RECURSIVE InsertSorted(_, _)
InsertSorted(x, list) ==
    IF list = <<>> THEN <<x>>
    ELSE IF x <= Head(list) THEN <<x>> \o list
         ELSE <<Head(list)>> \o InsertSorted(x, Tail(list))

RECURSIVE Sorted(_)
Sorted(list) ==
    IF list = <<>> THEN <<>> ELSE InsertSorted(Head(list), Sorted(Tail(list)))

\* The list without the sort
UnsortedRuleList == RuleKeys \o <<ReduceKey>>

\* rules = sorted(list(Holmes.rules.keys()) + [4.200])
SortedRuleList == Sorted(RuleKeys \o <<ReduceKey>>)

\* 4.015 < num < 5.000
IsReduction(num) == 4015 < num /\ num < 5000

\* location == Holmes.P (lines 198-199)
ApplyPrefix(str, orig, subst) ==
    IF StartsWith(str, orig) THEN ReplaceCount(str, orig, subst, 1) ELSE str

\* The suffix rewrite without its endswith test
ApplySuffixUnchecked(str, orig, subst) ==
    SubSeq(str, 1, Len(str) - Len(orig)) \o subst

\* location == Holmes.S (lines 202-204): str[:-l] + subst
ApplySuffix(str, orig, subst) ==
    IF EndsWith(str, orig)
    THEN SubSeq(str, 1, Len(str) - Len(orig)) \o subst ELSE str

\* location == Holmes.A (line 207)
ApplyAnywhere(str, orig, subst) == Replace(str, orig, subst)

\* Holmes._encode_rule(num, str): the rewritten string, or the exception
Holmes_encode_rule(num, str) ==
    IF IsReduction(num)
    THEN [err |-> "none", s |-> ReSubRuns(str)]
    ELSE IF num \notin DOMAIN rules
    THEN [err |-> "KeyError", s |-> str]
    ELSE LET orig == rules[num][1]
             subst == rules[num][2]
             location == rules[num][3]
         IN  IF location = P
             THEN [err |-> "none", s |-> ApplyPrefix(str, orig, subst)]
             ELSE IF location = S
             THEN [err |-> "none", s |-> ApplySuffix(str, orig, subst)]
             ELSE IF location = A
             THEN [err |-> "none", s |-> ApplyAnywhere(str, orig, subst)]
             ELSE [err |-> "ValueError", s |-> str]

----------------------------------------------------------------------------
(* The two encode methods as state machines: one call of encode on one     *)
(* input, a step per iteration of its loop.  advs and applied record what  *)
(* the loops did: the cursor, the slice length, the characters used and    *)
(* the advance length of every token, and the key, input and output of     *)
(* every rewrite step.                                                     *)

ARInputs == BoundedStrings(ARAlphabet, MaxLen) \cup NamedInputs

HolmesInputs == BoundedStrings(HolmesAlphabet, MaxLen) \cup NamedInputs

Init ==
    /\ alg \in {"ARCoder", "Holmes"}
    /\ input \in (IF alg = "ARCoder" THEN ARInputs ELSE HolmesInputs)
    /\ pc = "start"
    /\ err = "none"
    /\ result = <<>>
    /\ undup_title = <<>>
    /\ i = 0
    /\ encoded = <<>>
    /\ advs = <<>>
    /\ s = <<>>
    /\ rule_list = <<>>
    /\ ri = 0
    /\ applied = <<>>

\* ARCoder.encode, lines 102-109
ARCoderStart ==
    /\ alg = "ARCoder" /\ pc = "start"
    /\ undup_title' = UndupTitle(input)
    /\ i' = 0
    /\ encoded' = <<>>
    /\ pc' = "loop"
    /\ UNCHANGED <<alg, input, err, result, advs, s, rule_list, ri, applied>>

\* ARCoder.encode, lines 110-114: one iteration of the while loop
ARCoderToken ==
    /\ alg = "ARCoder" /\ pc = "loop"
    /\ i < Len(undup_title)
    /\ LET substr == Slice(undup_title, i, i + 2)
           r == ARCoder_encode_token(substr, IsFinal(i, Len(undup_title)))
       IN  IF r.err = "none"
           THEN /\ encoded' = Append(encoded, r.encodings)
                /\ i' = i + r.inc
                /\ advs' = Append(advs, [pos |-> i, len |-> Len(substr),
                                       used |-> r.used, inc |-> r.inc])
                /\ UNCHANGED <<pc, err>>
           ELSE /\ pc' = "raised"
                /\ err' = r.err
                /\ UNCHANGED <<encoded, i, advs>>
    /\ UNCHANGED <<alg, input, result, undup_title, s, rule_list, ri, applied>>

\* ARCoder.encode, lines 116-117
ARCoderReturn ==
    /\ alg = "ARCoder" /\ pc = "loop"
    /\ ~(i < Len(undup_title))
    /\ result' = CompressedSet(encoded)
    /\ pc' = "done"
    /\ UNCHANGED <<alg, input, err, undup_title, i, encoded, advs, s, rule_list,
                   ri, applied>>

\* Holmes.encode, lines 214-216
HolmesStart ==
    /\ alg = "Holmes" /\ pc = "start"
    /\ s' = Lower(input)
    /\ rule_list' = SortedRuleList
    /\ ri' = 0
    /\ pc' = "loop"
    /\ UNCHANGED <<alg, input, err, result, undup_title, i, encoded, advs, applied>>

\* Holmes.encode, lines 217-218: one iteration of the for loop
HolmesRule ==
    /\ alg = "Holmes" /\ pc = "loop"
    /\ ri < Len(rule_list)
    /\ LET rule == rule_list[ri + 1]
           r == Holmes_encode_rule(rule, s)
       IN  IF r.err = "none"
           THEN /\ s' = r.s
                /\ ri' = ri + 1
                /\ applied' = Append(applied,
                                     [key |-> rule, reduction |-> IsReduction(rule),
                                      before |-> s, after |-> r.s])
                /\ UNCHANGED <<pc, err>>
           ELSE /\ pc' = "raised"
                /\ err' = r.err
                /\ UNCHANGED <<s, ri, applied>>
    /\ UNCHANGED <<alg, input, result, undup_title, i, encoded, advs, rule_list>>

\* Holmes.encode, line 220
HolmesReturn ==
    /\ alg = "Holmes" /\ pc = "loop"
    /\ ~(ri < Len(rule_list))
    /\ result' = <<s>>
    /\ pc' = "done"
    /\ UNCHANGED <<alg, input, err, undup_title, i, encoded, advs, s, rule_list,
                   ri, applied>>

Next ==
    \/ ARCoderStart
    \/ ARCoderToken
    \/ ARCoderReturn
    \/ HolmesStart
    \/ HolmesRule
    \/ HolmesReturn

Spec == Init /\ [][Next]_vars

----------------------------------------------------------------------------
(* Properties                                                               *)

\* No two neighbours of str are equal.
NoAdjacentEqual(str) == \A k \in 1..(Len(str) - 1) : str[k] # str[k + 1]

\* No two neighbours of str are equal, line feeds aside.
NoAdjacentEqualButLF(str) ==
    \A k \in 1..(Len(str) - 1) : str[k] # str[k + 1] \/ str[k] = "\n"

\* The characters of str that do not repeat their left neighbour (a line
\* feed is always kept), in order.
RECURSIVE RunHeadsFrom(_, _)
RunHeadsFrom(str, k) ==
    IF k > Len(str) THEN <<>>
    ELSE (IF k = 1 \/ str[k] # str[k - 1] \/ str[k] = "\n" THEN <<str[k]>> ELSE <<>>)
         \o RunHeadsFrom(str, k + 1)

RunHeads(str) == RunHeadsFrom(str, 1)

RECURSIVE SumInc(_)
SumInc(tokens) ==
    IF tokens = <<>> THEN 0 ELSE Head(tokens).inc + SumInc(Tail(tokens))

RECURSIVE CardProduct(_)
CardProduct(lists) ==
    IF lists = <<>> THEN 1 ELSE Cardinality(Head(lists)) * CardProduct(Tail(lists))

ARDone == alg = "ARCoder" /\ pc = "done"

HolmesDone == alg = "Holmes" /\ pc = "done"

\* C1: for every input (empty, only disallowed characters, disallowed
\* characters mixed with letters) both encode methods terminate and return
\* a list without raising: no call of _encode reads an empty slice or the
\* unbound `encoded`, no call of _encode_rule raises ValueError or misses a
\* key; every token advances the cursor by at least 1 and the cursor stays
\* within one of the string's end, every rewrite step consumes one key of
\* the finite list, and encode returns a non-empty list.
C1_Totality ==
    /\ err = "none" /\ pc \in {"start", "loop", "done"}
    /\ \A k \in DOMAIN advs : advs[k].len \in {1, 2} /\ advs[k].inc >= 1
    /\ i = SumInc(advs) /\ i <= Len(undup_title) + 1
    /\ Len(encoded) = Len(advs)
    /\ ri = Len(applied) /\ ri <= Len(rule_list)
    /\ ARDone => IsFiniteSet(result) /\ result # {} /\ ~(i < Len(undup_title))
    /\ HolmesDone => Len(result) = 1 /\ ri = Len(SortedRuleList)

\* encode has returned on an input of disallowed characters mixed with letters
C1_Witness ==
    /\ ARDone /\ input = <<"1", "a", "1">>
    /\ result = {<<"a">>}

\* C2: ARCoder.encode("Sohaib") returns, as a set, {"suhaeb", "suhib"}, from
\* the tokens S -> s, o -> u, h -> h, ai -> {i, ae}, b -> b.
C2_SohaibARCoder ==
    (ARDone /\ input = Sohaib) =>
        /\ result = {<<"s", "u", "h", "a", "e", "b">>, <<"s", "u", "h", "i", "b">>}
        /\ encoded = <<{<<"s">>}, {<<"u">>}, {<<"h">>},
                       {<<"i">>, <<"a", "e">>}, {<<"b">>}>>

C2_Witness == ARDone /\ input = Sohaib /\ Len(advs) = 5

\* C3: Holmes.encode("Sohaib") returns ["sohayb"], every rule applied.
C3_SohaibHolmes ==
    (HolmesDone /\ input = Sohaib) =>
        /\ result = <<<<"s", "o", "h", "a", "y", "b">>>>
        /\ Len(applied) = Len(RuleKeys) + 1

C3_Witness == HolmesDone /\ input = Sohaib /\ Len(result) = 1

\* C4 as claimed: the number of distinct codes ARCoder.encode returns equals
\* the product of the tokens' candidate-list cardinalities.
C4_Original == ARDone => Cardinality(result) = CardProduct(encoded)

\* C4 as amended: the number of distinct codes ARCoder.encode returns is at
\* least 1 and at most the product of the tokens' candidate-list
\* cardinalities, and is exactly 1 when every token has exactly one
\* candidate.
C4_Amended ==
    ARDone =>
        /\ 1 <= Cardinality(result)
        /\ Cardinality(result) <= CardProduct(encoded)
        /\ (\A k \in DOMAIN encoded : Cardinality(encoded[k]) = 1)
               => Cardinality(result) = 1

\* two of the four combinations of "ie" compress to the same code
C4_Witness ==
    /\ ARDone /\ input = <<"i", "e">>
    /\ CardProduct(encoded) = 4 /\ Cardinality(result) = 3

\* The characters of the patterns of Holmes.rules
RulePatternChars == UNION {Range(rules[k][1]) : k \in DOMAIN rules}

\* An input of C5: no character in the allowed set, none (lower-cased) in a
\* pattern.
OnlyForeign(str) ==
    /\ str # <<>>
    /\ \A k \in DOMAIN str :
          str[k] \notin VALID_CHARS /\ LowerChar(str[k]) \notin RulePatternChars

\* C5 as claimed: on an input of characters outside the allowed set that no
\* pattern mentions, Holmes.encode returns the lower-cased input unchanged.
C5_Original ==
    (HolmesDone /\ OnlyForeign(input)) => result = <<Lower(input)>>

\* C5 as amended: on such an input Holmes.encode returns the lower-cased
\* input with every run of one repeated character (line feeds aside) cut
\* to its first character; it is the lower-cased input itself when no two
\* neighbours are equal.
C5_Amended ==
    (HolmesDone /\ OnlyForeign(input)) =>
        /\ result = <<RunHeads(Lower(input))>>
        /\ NoAdjacentEqual(input) => result = <<Lower(input)>>

C5_Witness ==
    /\ HolmesDone /\ input = <<"1", "1", "1">>
    /\ result = <<<<"1">>>>

\* C6: ARCoder.encode(s), encode(lower(s)) and encode(upper(s)) are equal as
\* sets.
C6_CaseInsensitive ==
    ARDone =>
        /\ result = ARCoderEncode(Lower(input))
        /\ result = ARCoderEncode(Upper(input))

\* encode has returned on an input that is neither its lower nor its upper
\* form, and whose title form starts with the key "Ch"
C6_Witness ==
    /\ ARDone /\ input = <<"C", "h", "a", "r", "i", "f">>
    /\ input # Lower(input) /\ input # Upper(input)
    /\ encoded[1] = {<<"h">>, <<"0">>}

\* C7 as claimed: every token's advance length equals the number of
\* characters of its slice, the advance lengths sum to the length of the
\* normalized string, and the cursor ends at that length.
C7_Original ==
    alg = "ARCoder" =>
        /\ \A k \in DOMAIN advs : advs[k].inc = advs[k].used
        /\ pc = "done" => /\ SumInc(advs) = Len(undup_title)
                          /\ i = Len(undup_title)

\* The keys of the table and the key of the reduction
AllKeys == DOMAIN rules \cup {ReduceKey}

\* C8: Holmes.encode applies the keys in strictly ascending order, each once,
\* each step on the output of the step before (the first on the lower-cased
\* input); the reduction runs for key 4.200 alone, after every key <= 4.015
\* and before every key >= 5.001; when encode returns every key of the table
\* and 4.200 has been applied and the result is the last step's output.
C8_AscendingOnce ==
    alg = "Holmes" =>
        /\ \A k \in 1..(Len(applied) - 1) :
              /\ applied[k].key < applied[k + 1].key
              /\ applied[k + 1].before = applied[k].after
        /\ applied # <<>> =>
              /\ applied[1].before = Lower(input)
              /\ applied[Len(applied)].after = s
        /\ \A k \in DOMAIN applied :
              /\ applied[k].reduction <=> applied[k].key = ReduceKey
              /\ applied[k].key \in AllKeys
              /\ applied[k].reduction =>
                    /\ \A j \in 1..(k - 1) : applied[j].key <= 4015
                    /\ \A j \in (k + 1)..Len(applied) : applied[j].key >= 5001
        /\ pc = "done" =>
              /\ {applied[k].key : k \in DOMAIN applied} = AllKeys
              /\ Len(applied) = Cardinality(AllKeys)
              /\ result = <<applied[Len(applied)].after>>

\* the reduction has run, on a string with a doubled letter, and rules of
\* the 5.x group after it
C8_Witness ==
    /\ HolmesDone
    /\ \E k \in DOMAIN applied :
          /\ applied[k].key = ReduceKey /\ applied[k].before # applied[k].after
          /\ k < Len(applied)

\* str holds a letter twice in a row.
DoubledLetter(str) ==
    \E k \in 1..(Len(str) - 1) :
        str[k] = str[k + 1] /\ str[k] \in LowerLetters \cup UpperLetters

\* C9 as claimed: the string Holmes.encode returns holds no two adjacent
\* identical characters, no rule applied after the reduction step having
\* re-created a doubled letter (read here for letters alone).
C9_Original == HolmesDone => ~DoubledLetter(result[1])

\* C9 as amended: the working string right after the reduction step (key
\* 4.200) has no two adjacent identical characters, line feeds aside; the
\* rules applied after it may re-create a doubled letter.
C9_Amended ==
    alg = "Holmes" =>
        \A k \in DOMAIN applied :
            applied[k].key = ReduceKey => NoAdjacentEqualButLF(applied[k].after)

\* the reduction has just removed a doubled letter
C9_Witness ==
    /\ alg = "Holmes" /\ applied # <<>>
    /\ applied[Len(applied)].key = ReduceKey
    /\ ~NoAdjacentEqual(applied[Len(applied)].before)
    /\ s = applied[Len(applied)].after

\* The rules after 3.010 whose pattern holds an 'e'
RulesWithEAfter3010 == {3012, 3015, 3016, 3020, 4005, 5001, 5002, 5003, 5010}

\* C10: once rule 3.010 ("e" -> "i", anywhere) has been applied, the working
\* string holds no 'e' at any later step, the result holds none, and every
\* later rule whose pattern holds an 'e' changes nothing.
C10_NoEAfter3010 ==
    alg = "Holmes" =>
        /\ RulesWithEAfter3010 =
              {k \in DOMAIN rules : k > 3010 /\ "e" \in Range(rules[k][1])}
        /\ \A k \in DOMAIN applied :
              /\ applied[k].key >= 3010 => "e" \notin Range(applied[k].after)
              /\ applied[k].key \in RulesWithEAfter3010
                     => applied[k].after = applied[k].before
        /\ (applied # <<>> /\ applied[Len(applied)].key >= 3010)
               => "e" \notin Range(s)
        /\ pc = "done" => "e" \notin Range(result[1])

\* rule 3.010 rewrote two 'e's of the input, and encode returned
C10_Witness ==
    /\ HolmesDone
    /\ \E k \in DOMAIN applied :
          /\ applied[k].key = 3010
          /\ Cardinality({j \in DOMAIN applied[k].before :
                             applied[k].before[j] = "e"}) >= 2

====
